---- MODULE Spec2Model ----
(***************************************************************************)
(* A model of bedshift.Bedshift (src/bedshift/bedshift.py): the working    *)
(* DataFrame self.bed, the pristine copy self.original_bed, the            *)
(* chromosome-length map, the eight perturbation operators, the pipeline   *)
(* all_perturbations, reset_bed and to_bed.                                *)
(*                                                                         *)
(* A DataFrame is a sequence of rows in positional order; every row        *)
(* carries its index label idx and the columns 0..3 as chrom, start, end   *)
(* and tag.  Chromosomes are numbered 1, 2, ... ("chr1", "chr2", ...), so  *)
(* that the order of the numbers is the order of the names.  A rate is an  *)
(* integer number of halves (rate 3 is 1.5): halves are exact in binary    *)
(* floating point, so int(rows * rate) is (rows * rate) \div 2.            *)
(* Every value drawn from the random source is a nondeterministic choice,  *)
(* so each operator is the SET of outcomes its call can have.              *)
(***************************************************************************)
EXTENDS Integers, Sequences, FiniteSets, TLC

\* ------------------------------------------------------------------ bounds
\* most rows of a loaded BED file, and of an external BED file
MaxInit == 2
\* an operator that would leave more rows than this is not called
MaxRows == 4
\* operator calls between loading the file, and resetting the frame, and
\* writing it
MaxCalls == 1

\* ------------------------------------------------------------- input sets
\* the values int(np.random.normal(shiftmean, shiftstdev)) takes
ShiftDraws == {-1, 0, 1}
\* the values int(np.random.normal(addmean, addstdev)) takes
AddDraws == {-2, 1}
\* rates in halves: -0.5, 0, 0.5, 1, 1.5
Rates == {-1, 0, 1, 2, 3}
\* the chrom.sizes files: none, chr1 only, chr1 and chr2
ChromSizes == { <<>>, <<3>>, <<3, 1>> }
\* the regions BED files are made of
FileRegions ==
    { [chrom |-> 1, start |-> 0, end |-> 2, tag |-> "-"],
      [chrom |-> 1, start |-> 1, end |-> 2, tag |-> "-"],
      [chrom |-> 2, start |-> 0, end |-> 1, tag |-> "-"] }

\* the BED files passed to the from-file operators, as read_bed returns them
ExtFiles ==
    { << [chrom |-> 1, start |-> 0, end |-> 2, tag |-> "-"] >>,
      << [chrom |-> 2, start |-> 0, end |-> 1, tag |-> "-"] >>,
      << [chrom |-> 1, start |-> 0, end |-> 2, tag |-> "-"],
         [chrom |-> 1, start |-> 1, end |-> 2, tag |-> "-"] >> }
\* the regions of the frames _find_overlap is called on by itself
OverlapRegions ==
    FileRegions \cup { [chrom |-> 1, start |-> 0, end |-> 1, tag |-> "-"] }
\* the rates all_perturbations is called with: 0, 0.5, 1.5
StageRates == {0, 1, 3}

\* ---------------------------------------------------------------- frames
Region(r) == [chrom |-> r.chrom, start |-> r.start, end |-> r.end, tag |-> r.tag]

Regions(b) == [i \in 1..Len(b) |-> Region(b[i])]

\* the row labels of a frame
Index(b) == {b[i].idx : i \in 1..Len(b)}

\* b.loc[row]
Loc(b, row) == b[CHOOSE i \in 1..Len(b) : b[i].idx = row]

\* DataFrame(regs) with a fresh RangeIndex: reset_index(drop=True)
reset_index(regs) ==
    [i \in 1..Len(regs) |->
        [idx |-> i - 1, chrom |-> regs[i].chrom, start |-> regs[i].start,
         end |-> regs[i].end, tag |-> regs[i].tag]]

\* b.drop(labels): the rows whose label is not listed, labels kept
drop_labels(b, labels) == SelectSeq(b, LAMBDA r : r.idx \notin labels)

\* b.append(new, ignore_index=True)
append(b, new) == reset_index(Regions(b) \o new)

\* the order of sort_values([0, 1, 2])
KeyLeq(a, b) ==
    \/ a.chrom < b.chrom
    \/ a.chrom = b.chrom /\ a.start < b.start
    \/ a.chrom = b.chrom /\ a.start = b.start /\ a.end <= b.end

RECURSIVE sort_values(_)
sort_values(b) ==
    IF Len(b) <= 1 THEN b
    ELSE LET s == sort_values(SubSeq(b, 1, Len(b) - 1))
             x == b[Len(b)]
             before == Cardinality({i \in 1..Len(s) : KeyLeq(s[i], x)})
         IN  SubSeq(s, 1, before) \o <<x>> \o SubSeq(s, before + 1, Len(s))

IsSorted(b) == \A i \in 1..(Len(b) - 1) : KeyLeq(b[i], b[i + 1])

\* read_bed: the rows of a BED file, every one tagged "-"
BedFiles ==
    UNION { [1..n -> FileRegions] : n \in 1..MaxInit }

\* ------------------------------------------------------- the random source
\* int(rows * rate), rate in halves
NumRows(rows, rate) == (rows * rate) \div 2

\* random.sample(list(range(n)), k): the k-element lists without repetition
sample(n, k) ==
    { s \in [1..k -> 0..(n - 1)] : \A i, j \in 1..k : i # j => s[i] # s[j] }

\* ---------------------------------------------------------------- results
\* what a call leaves: the frame, the value returned, the error raised, the
\* number of values drawn, what was sampled, what was built from which row,
\* and how many candidates shift rejected
Result(b, ret, drawn, rows, made, invalid) ==
    [bed |-> b, ret |-> ret, err |-> "none", drawn |-> drawn,
     rows |-> rows, made |-> made, invalid |-> invalid]

Fail(b, err, drawn) ==
    [bed |-> b, ret |-> -1, err |-> err, drawn |-> drawn,
     rows |-> <<>>, made |-> <<>>, invalid |-> 0]

\* -------------------------------------------------------------- operators
\* Bedshift._precheck: the error it exits with, "none" when it returns
_precheck(rate, requiresChromLens, isAdd, lens) ==
    IF isAdd /\ rate < 0 THEN "InvalidRate"
    ELSE IF ~isAdd /\ (rate < 0 \/ rate > 2) THEN "InvalidRate"
    ELSE IF requiresChromLens /\ Len(lens) = 0 THEN "MissingChromLens"
    ELSE "none"

RECURSIVE Concat(_)
Concat(ss) == IF ss = <<>> THEN <<>> ELSE Head(ss) \o Concat(Tail(ss))

Min(S) == CHOOSE x \in S : \A y \in S : x <= y

\* _shift without the test against the chromosome length
_shift_no_length_test(b, lens, row, theshift) ==
    IF row \notin Index(b) THEN [err |-> "KeyError", new |-> <<>>]
    ELSE LET chrom == Loc(b, row).chrom
             start == Loc(b, row).start
             end == Loc(b, row).end
         IN  IF start + theshift < 0 THEN [err |-> "none", new |-> <<>>]
             ELSE [err |-> "none",
                   new |-> << [chrom |-> chrom, start |-> start + theshift,
                               end |-> end + theshift, tag |-> "S"] >>]

\* Bedshift._shift: new is <<>> for (None, None), else the shifted region
_shift(b, lens, row, theshift) ==
    IF row \notin Index(b) THEN [err |-> "KeyError", new |-> <<>>]
    ELSE LET chrom == Loc(b, row).chrom
             start == Loc(b, row).start
             end == Loc(b, row).end
         IN  IF start + theshift < 0 THEN [err |-> "none", new |-> <<>>]
             ELSE IF chrom \notin DOMAIN lens THEN [err |-> "KeyError", new |-> <<>>]
             ELSE IF end + theshift > lens[chrom] THEN [err |-> "none", new |-> <<>>]
             ELSE [err |-> "none",
                   new |-> << [chrom |-> chrom, start |-> start + theshift,
                               end |-> end + theshift, tag |-> "S"] >>]

\* shift replacing each accepted row as it goes, so that a row that raises
\* leaves the rows before it shifted
shift_rows_loop_in_place(b, lens, shift_rows, shifts, drawn) ==
    LET k == Len(shift_rows)
        res == [j \in 1..k |-> _shift(b, lens, shift_rows[j], shifts[j])]
        bad == {j \in 1..k : res[j].err # "none"}
        upto == IF bad = {} THEN k ELSE Min(bad) - 1
        to_drop == {shift_rows[j] : j \in {i \in 1..upto : res[i].new # <<>>}}
        new_row_list == Concat([j \in 1..upto |-> res[j].new])
        after == append(drop_labels(b, to_drop), new_row_list)
    IN  IF bad # {} THEN Fail(after, res[Min(bad)].err, drawn + Min(bad))
        ELSE Result(after, Len(new_row_list), drawn + k, shift_rows,
                    [j \in 1..k |-> [row |-> shift_rows[j], regions |-> res[j].new]],
                    Cardinality({j \in 1..k : res[j].new = <<>>}))

\* the loop and the tail of Bedshift.shift over the candidate rows
shift_rows_loop(b, lens, shift_rows, shifts, drawn) ==
    LET k == Len(shift_rows)
        res == [j \in 1..k |-> _shift(b, lens, shift_rows[j], shifts[j])]
        bad == {j \in 1..k : res[j].err # "none"}
        to_drop == {shift_rows[j] : j \in {i \in 1..k : res[i].new # <<>>}}
        new_row_list == Concat([j \in 1..k |-> res[j].new])
    IN  IF bad # {} THEN Fail(b, res[Min(bad)].err, drawn + Min(bad))
        ELSE Result(append(drop_labels(b, to_drop), new_row_list),
                    Len(new_row_list), drawn + k, shift_rows,
                    [j \in 1..k |-> [row |-> shift_rows[j], regions |-> res[j].new]],
                    Cardinality({j \in 1..k : res[j].new = <<>>}))

\* Bedshift.shift; explicit is "shift_rows was passed", given is its value
shift(b, lens, shiftrate, explicit, given) ==
    LET chk == _precheck(shiftrate, TRUE, FALSE, lens)
        rows == Len(b)
    IN  IF chk # "none" THEN {Fail(b, chk, 0)}
        ELSE UNION { { shift_rows_loop(b, lens, sr, sh, IF explicit THEN 0 ELSE Len(sr))
                        : sh \in [1..Len(sr) -> ShiftDraws] }
                     : sr \in IF explicit THEN {given}
                              ELSE sample(rows, NumRows(rows, shiftrate)) }

\* _cut with the second region starting one past the cut
_cut_gap(b, row) ==
    LET chrom == Loc(b, row).chrom
        start == Loc(b, row).start
        end == Loc(b, row).end
        mid == (start + end) \div 2
        low == IF mid <= start THEN start + 10 ELSE mid
        thecut == IF low >= end THEN end - 10 ELSE low
    IN  << [chrom |-> chrom, start |-> start, end |-> thecut, tag |-> "C"],
           [chrom |-> chrom, start |-> thecut + 1, end |-> end, tag |-> "C"] >>

\* Bedshift._cut
_cut(b, row) ==
    LET chrom == Loc(b, row).chrom
        start == Loc(b, row).start
        end == Loc(b, row).end
        mid == (start + end) \div 2
        low == IF mid <= start THEN start + 10 ELSE mid
        thecut == IF low >= end THEN end - 10 ELSE low
    IN  << [chrom |-> chrom, start |-> start, end |-> thecut, tag |-> "C"],
           [chrom |-> chrom, start |-> thecut, end |-> end, tag |-> "C"] >>

\* cut shortening the sampled row where it stands, tag kept, and appending
\* the other half
cut_in_place(b, cutrate) ==
    LET chk == _precheck(cutrate, FALSE, FALSE, <<>>)
        rows == Len(b)
    IN  IF chk # "none" THEN {Fail(b, chk, 0)}
        ELSE { LET k == Len(cut_rows)
                   new == [j \in 1..k |-> _cut(b, cut_rows[j])]
                   shortened == [i \in 1..Len(b) |->
                                    IF \E j \in 1..k : cut_rows[j] = b[i].idx
                                    THEN [b[i] EXCEPT !.end = _cut(b, b[i].idx)[1].end]
                                    ELSE b[i]]
               IN  Result(append(shortened, [j \in 1..k |-> new[j][2]]),
                          k, k, cut_rows,
                          [j \in 1..k |-> [row |-> cut_rows[j], regions |-> <<new[j][2]>>]], 0)
               : cut_rows \in sample(rows, NumRows(rows, cutrate)) }

\* Bedshift.cut
cut(b, cutrate) ==
    LET chk == _precheck(cutrate, FALSE, FALSE, <<>>)
        rows == Len(b)
    IN  IF chk # "none" THEN {Fail(b, chk, 0)}
        ELSE { LET k == Len(cut_rows)
                   new == [j \in 1..k |-> _cut(b, cut_rows[j])]
                   to_drop == {cut_rows[j] : j \in 1..k}
               IN  Result(append(drop_labels(b, to_drop), Concat(new)),
                          k, k, cut_rows,
                          [j \in 1..k |-> [row |-> cut_rows[j], regions |-> new[j]]], 0)
               : cut_rows \in sample(rows, NumRows(rows, cutrate)) }

\* _merge without the test that both rows are on one chromosome
_merge_any_chrom(b, row) ==
    IF row + 1 \notin Index(b)
    THEN [drop_row |-> <<>>, add_row |-> <<>>]
    ELSE [drop_row |-> <<row, row + 1>>,
          add_row |-> << [chrom |-> Loc(b, row).chrom, start |-> Loc(b, row).start,
                          end |-> Loc(b, row + 1).end, tag |-> "M"] >>]

\* Bedshift._merge
_merge(b, row) ==
    IF row + 1 \notin Index(b) \/ Loc(b, row).chrom # Loc(b, row + 1).chrom
    THEN [drop_row |-> <<>>, add_row |-> <<>>]
    ELSE [drop_row |-> <<row, row + 1>>,
          add_row |-> << [chrom |-> Loc(b, row).chrom, start |-> Loc(b, row).start,
                          end |-> Loc(b, row + 1).end, tag |-> "M"] >>]

\* Bedshift.merge
merge(b, mergerate) ==
    LET chk == _precheck(mergerate, FALSE, FALSE, <<>>)
        rows == Len(b)
    IN  IF chk # "none" THEN {Fail(b, chk, 0)}
        ELSE { LET k == Len(merge_rows)
                   res == [j \in 1..k |-> _merge(b, merge_rows[j])]
                   drops == Concat([j \in 1..k |-> res[j].drop_row])
                   to_drop == {drops[j] : j \in 1..Len(drops)}
                   to_add == Concat([j \in 1..k |-> res[j].add_row])
               IN  Result(append(drop_labels(b, to_drop), to_add),
                          k, k, merge_rows,
                          [j \in 1..k |-> [row |-> merge_rows[j], regions |-> res[j].add_row]],
                          0)
               : merge_rows \in sample(rows, NumRows(rows, mergerate)) }

\* drop sampling the row count rounded up instead of down
drop_rounded_up(b, droprate) ==
    LET chk == _precheck(droprate, FALSE, FALSE, <<>>)
        rows == Len(b)
    IN  IF chk # "none" THEN {Fail(b, chk, 0)}
        ELSE { Result(reset_index(drop_labels(b, {drop_rows[j] : j \in 1..Len(drop_rows)})),
                      Len(drop_rows), Len(drop_rows), drop_rows, <<>>, 0)
               : drop_rows \in sample(rows, (rows * droprate + 1) \div 2) }

\* drop removing the row after each sampled row
drop_row_after(b, droprate) ==
    LET chk == _precheck(droprate, FALSE, FALSE, <<>>)
        rows == Len(b)
    IN  IF chk # "none" THEN {Fail(b, chk, 0)}
        ELSE { Result(reset_index(drop_labels(b,
                          {(drop_rows[j] + 1) % rows : j \in 1..Len(drop_rows)})),
                      Len(drop_rows), Len(drop_rows), drop_rows, <<>>, 0)
               : drop_rows \in sample(rows, NumRows(rows, droprate)) }

\* Bedshift.drop
drop(b, droprate) ==
    LET chk == _precheck(droprate, FALSE, FALSE, <<>>)
        rows == Len(b)
    IN  IF chk # "none" THEN {Fail(b, chk, 0)}
        ELSE { Result(reset_index(drop_labels(b, {drop_rows[j] : j \in 1..Len(drop_rows)})),
                      Len(drop_rows), Len(drop_rows), drop_rows, <<>>, 0)
               : drop_rows \in sample(rows, NumRows(rows, droprate)) }

\* Bedshift.pick_random_chroms and the draws of one pass of the loop of add:
\* a chromosome of positive weight, random.randint(1, chrom_len), the length
AddPicks(lens) ==
    UNION { { [chrom |-> c, start |-> s, length |-> l]
              : s \in 1..lens[c], l \in AddDraws } : c \in DOMAIN lens }

\* add without the minimum that keeps the end within the chromosome
add_unbounded_end(b, lens, addrate) ==
    LET chk == _precheck(addrate, TRUE, TRUE, lens)
        rows == Len(b)
        num_add == NumRows(rows, addrate)
    IN  IF chk # "none" THEN {Fail(b, chk, 0)}
        ELSE { LET new_regions ==
                       [j \in 1..num_add |->
                           [chrom |-> picks[j].chrom, start |-> picks[j].start,
                            end |-> picks[j].start + picks[j].length,
                            tag |-> "A"]]
               IN  Result(append(b, new_regions), num_add, 3 * num_add, <<>>,
                          [j \in 1..num_add |-> [row |-> -1, regions |-> <<new_regions[j]>>]], 0)
               : picks \in [1..num_add -> AddPicks(lens)] }

\* Bedshift.add
add(b, lens, addrate) ==
    LET chk == _precheck(addrate, TRUE, TRUE, lens)
        rows == Len(b)
        num_add == NumRows(rows, addrate)
    IN  IF chk # "none" THEN {Fail(b, chk, 0)}
        ELSE { LET new_regions ==
                       [j \in 1..num_add |->
                           [chrom |-> picks[j].chrom, start |-> picks[j].start,
                            end |-> IF picks[j].start + picks[j].length < lens[picks[j].chrom]
                                    THEN picks[j].start + picks[j].length
                                    ELSE lens[picks[j].chrom],
                            tag |-> "A"]]
               IN  Result(append(b, new_regions), num_add, 3 * num_add, <<>>,
                          [j \in 1..num_add |-> [row |-> -1, regions |-> <<new_regions[j]>>]], 0)
               : picks \in [1..num_add -> AddPicks(lens)] }

\* add_from_file drawing the rows of the file with replacement
add_from_file_repeating(b, lens, f, addrate) ==
    LET chk == _precheck(addrate, TRUE, TRUE, lens)
        rows == Len(b)
        df == reset_index(f)
        num_add == IF NumRows(rows, addrate) > Len(df) THEN Len(df)
                   ELSE NumRows(rows, addrate)
    IN  IF chk # "none" THEN {Fail(b, chk, 0)}
        ELSE { LET add_df == [j \in 1..num_add |->
                                 [Region(Loc(df, add_rows[j])) EXCEPT !.tag = "A"]]
               IN  Result(append(b, add_df), num_add, num_add, add_rows,
                          [j \in 1..num_add |-> [row |-> add_rows[j], regions |-> <<add_df[j]>>]],
                          0)
               : add_rows \in [1..num_add -> 0..(Len(df) - 1)] }

\* Bedshift.add_from_file; f is what read_bed returns for the file
add_from_file(b, lens, f, addrate) ==
    LET chk == _precheck(addrate, TRUE, TRUE, lens)
        rows == Len(b)
        df == reset_index(f)
        num_add == IF NumRows(rows, addrate) > Len(df) THEN Len(df)
                   ELSE NumRows(rows, addrate)
    IN  IF chk # "none" THEN {Fail(b, chk, 0)}
        ELSE { LET add_df == [j \in 1..num_add |->
                                 [Region(Loc(df, add_rows[j])) EXCEPT !.tag = "A"]]
               IN  Result(append(b, add_df), num_add, num_add, add_rows,
                          [j \in 1..num_add |-> [row |-> add_rows[j], regions |-> <<add_df[j]>>]],
                          0)
               : add_rows \in sample(Len(df), num_add) }

\* the half-open overlap test of pyranges on one chromosome
Overlaps(r, c) == r.chrom = c.chrom /\ r.start < c.end /\ c.start < r.end

\* _find_overlap taking regions that touch for regions that overlap
_find_overlap_closed(reference_bed, comparison_bed) ==
    LET intersection ==
            reset_index(SelectSeq(Regions(reference_bed),
                LAMBDA r : \E j \in 1..Len(comparison_bed) :
                    /\ r.chrom = comparison_bed[j].chrom
                    /\ r.start <= comparison_bed[j].end
                    /\ comparison_bed[j].start <= r.end))
    IN  [err |-> IF Len(intersection) = 0 THEN "NoOverlap" ELSE "none",
         intersection |-> intersection]

\* Bedshift._find_overlap: the rows of the reference frame that overlap a row
\* of the comparison frame, once each, under a fresh RangeIndex (as_df)
_find_overlap(reference_bed, comparison_bed) ==
    LET intersection ==
            reset_index(SelectSeq(Regions(reference_bed),
                LAMBDA r : \E j \in 1..Len(comparison_bed) : Overlaps(r, comparison_bed[j])))
    IN  [err |-> IF Len(intersection) = 0 THEN "NoOverlap" ELSE "none",
         intersection |-> intersection]

\* shift_from_file shifting as many rows as overlap when more are asked for
shift_from_file_fewer(b, orig, lens, f, shiftrate) ==
    LET chk == _precheck(shiftrate, FALSE, FALSE, lens)
        rows == Len(b)
        found == _find_overlap(orig, f)
        intersect_regions == found.intersection
        num_shift == Min({NumRows(rows, shiftrate), Len(intersect_regions)})
    IN  IF chk # "none" THEN {Fail(b, chk, 0)}
        ELSE IF found.err # "none" THEN {Fail(b, found.err, 0)}
        ELSE UNION { { [o EXCEPT !.drawn = @ + num_shift]
                       : o \in shift(b, lens, shiftrate, TRUE, rows2shift) }
                     : rows2shift \in sample(Len(intersect_regions), num_shift) }

\* Bedshift.shift_from_file
shift_from_file(b, orig, lens, f, shiftrate) ==
    LET chk == _precheck(shiftrate, FALSE, FALSE, lens)
        rows == Len(b)
        num_shift == NumRows(rows, shiftrate)
        found == _find_overlap(orig, f)
        intersect_regions == found.intersection
    IN  IF chk # "none" THEN {Fail(b, chk, 0)}
        ELSE IF found.err # "none" THEN {Fail(b, found.err, 0)}
        ELSE IF num_shift > Len(intersect_regions) THEN {Fail(b, "InsufficientOverlap", 0)}
        ELSE UNION { { [o EXCEPT !.drawn = @ + num_shift]
                       : o \in shift(b, lens, shiftrate, TRUE, rows2shift) }
                     : rows2shift \in sample(Len(intersect_regions), num_shift) }

\* drop_from_file removing the overlapping rows it finds before it samples
drop_from_file_drop_first(b, orig, f, droprate) ==
    LET rows == Len(b)
        drop_rows == Len(f)
        num_drop == IF NumRows(rows, droprate) >= drop_rows THEN drop_rows
                    ELSE NumRows(rows, droprate)
        found == _find_overlap(orig, f)
        intersect_regions == found.intersection
    IN  IF droprate < 0 THEN {Fail(b, "InvalidRate", 0)}
        ELSE IF droprate = 0 THEN {Result(b, 0, 0, <<>>, <<>>, 0)}
        ELSE IF found.err # "none" THEN {Fail(b, found.err, 0)}
        ELSE IF num_drop > Len(intersect_regions)
             THEN {Fail(reset_index(drop_labels(b, Index(intersect_regions))), "ValueError", 0)}
        ELSE { LET labels == {Loc(intersect_regions, rows2drop[j]).idx : j \in 1..num_drop}
               IN  IF ~(labels \subseteq Index(b)) THEN Fail(b, "KeyError", num_drop)
                   ELSE Result(reset_index(drop_labels(b, labels)),
                               num_drop, num_drop, rows2drop, <<>>, 0)
               : rows2drop \in sample(Len(intersect_regions), num_drop) }

\* Bedshift.drop_from_file
drop_from_file(b, orig, f, droprate) ==
    LET rows == Len(b)
        drop_rows == Len(f)
        num_drop == IF NumRows(rows, droprate) >= drop_rows THEN drop_rows
                    ELSE NumRows(rows, droprate)
        found == _find_overlap(orig, f)
        intersect_regions == found.intersection
    IN  IF droprate < 0 THEN {Fail(b, "InvalidRate", 0)}
        ELSE IF droprate = 0 THEN {Result(b, 0, 0, <<>>, <<>>, 0)}
        ELSE IF found.err # "none" THEN {Fail(b, found.err, 0)}
        ELSE IF num_drop > Len(intersect_regions) THEN {Fail(b, "ValueError", 0)}
        ELSE { LET labels == {Loc(intersect_regions, rows2drop[j]).idx : j \in 1..num_drop}
               IN  IF ~(labels \subseteq Index(b)) THEN Fail(b, "KeyError", num_drop)
                   ELSE Result(reset_index(drop_labels(b, labels)),
                               num_drop, num_drop, rows2drop, <<>>, 0)
               : rows2drop \in sample(Len(intersect_regions), num_drop) }

\* ------------------------------------------------------------------ state
VARIABLES
    bed,            \* self.bed
    original_bed,   \* self.original_bed
    chrom_lens,     \* self.chrom_lens, chromosome c at position c
    call,           \* the last call of an operator: its arguments and outcome
    calls,          \* calls made since the file was loaded or the frame reset
    pc,             \* where all_perturbations stands
    n,              \* the local n of all_perturbations
    bed0,           \* self.bed when all_perturbations was entered
    stages          \* the stages all_perturbations has run, with their counts

vars == <<bed, original_bed, chrom_lens, call, calls, pc, n, bed0, stages>>

NoCall ==
    [op |-> "none", rate |-> 0, file |-> <<>>, pre |-> <<>>, ret |-> 0, err |-> "none",
     drawn |-> 0, rows |-> <<>>, made |-> <<>>, invalid |-> 0]

\* Bedshift.__init__: the file read, sorted and re-indexed, and its copy
Init ==
    /\ \E f \in BedFiles : bed = reset_index(sort_values(f))
    /\ original_bed = bed
    /\ chrom_lens \in ChromSizes
    /\ call = NoCall
    /\ calls = 0
    /\ pc = "idle"
    /\ n = 0
    /\ bed0 = <<>>
    /\ stages = <<>>

\* no call of the public interface is running
Idle == pc \in {"idle", "done", "failed"}

\* the rows int(rows * rate) adds to a frame of that many rows, at most most
Grown(b, rate, most) ==
    LET k == IF rate > 0 THEN NumRows(Len(b), rate) ELSE 0
    IN  Len(b) + (IF k > most THEN most ELSE k)

\* one operator called with these arguments ends as outcome o
Called(op, rate, f, o) ==
    /\ bed' = o.bed
    /\ call' = [op |-> op, rate |-> rate, file |-> f, pre |-> bed, ret |-> o.ret,
                err |-> o.err, drawn |-> o.drawn, rows |-> o.rows, made |-> o.made,
                invalid |-> o.invalid]
    /\ UNCHANGED <<original_bed, chrom_lens>>

\* an operator called on its own, outside all_perturbations
Single ==
    /\ Idle
    /\ calls < MaxCalls
    /\ calls' = calls + 1
    /\ pc' = "idle"
    /\ n' = 0
    /\ bed0' = <<>>
    /\ stages' = <<>>

Shift ==
    /\ Single
    /\ \E shiftrate \in Rates : \E o \in shift(bed, chrom_lens, shiftrate, FALSE, <<>>) :
          Called("shift", shiftrate, <<>>, o)

ShiftFromFile ==
    /\ Single
    /\ \E shiftrate \in Rates, fp \in ExtFiles :
          \E o \in shift_from_file(bed, original_bed, chrom_lens, fp, shiftrate) :
              Called("shift_from_file", shiftrate, fp, o)

Add ==
    /\ Single
    /\ \E addrate \in Rates :
          /\ Grown(bed, addrate, MaxRows) <= MaxRows
          /\ \E o \in add(bed, chrom_lens, addrate) : Called("add", addrate, <<>>, o)

AddFromFile ==
    /\ Single
    /\ \E addrate \in Rates, fp \in ExtFiles :
          /\ Grown(bed, addrate, Len(fp)) <= MaxRows
          /\ \E o \in add_from_file(bed, chrom_lens, fp, addrate) :
                Called("add_from_file", addrate, fp, o)

Cut ==
    /\ Single
    /\ \E cutrate \in Rates :
          /\ Grown(bed, cutrate, MaxRows) <= MaxRows
          /\ \E o \in cut(bed, cutrate) : Called("cut", cutrate, <<>>, o)

Merge ==
    /\ Single
    /\ \E mergerate \in Rates : \E o \in merge(bed, mergerate) :
          Called("merge", mergerate, <<>>, o)

Drop ==
    /\ Single
    /\ \E droprate \in Rates : \E o \in drop(bed, droprate) :
          Called("drop", droprate, <<>>, o)

DropFromFile ==
    /\ Single
    /\ \E droprate \in Rates, fp \in ExtFiles :
          \E o \in drop_from_file(bed, original_bed, fp, droprate) :
              Called("drop_from_file", droprate, fp, o)

\* reset_bed restoring the rows of the frame that are still tagged "-"
\* instead of the copy of the loaded file
ResetBed_untouched_rows ==
    /\ Idle
    /\ bed' = reset_index(SelectSeq(Regions(bed), LAMBDA r : r.tag = "-"))
    /\ call' = [NoCall EXCEPT
                   !.op = "reset_bed", !.ret = Len(bed),
                   !.invalid = Cardinality({i \in 1..Len(bed) : bed[i].tag # "-"})]
    /\ calls' = 0
    /\ pc' = "idle"
    /\ n' = 0
    /\ bed0' = <<>>
    /\ stages' = <<>>
    /\ UNCHANGED <<original_bed, chrom_lens>>

\* Bedshift.reset_bed, after which a run starts over; the call record keeps
\* the row count of the frame it replaced (ret) and how many of its rows
\* were perturbed (invalid)
ResetBed ==
    /\ Idle
    /\ bed' = original_bed
    /\ call' = [NoCall EXCEPT
                   !.op = "reset_bed", !.ret = Len(bed),
                   !.invalid = Cardinality({i \in 1..Len(bed) : bed[i].tag # "-"})]
    /\ calls' = 0
    /\ pc' = "idle"
    /\ n' = 0
    /\ bed0' = <<>>
    /\ stages' = <<>>
    /\ UNCHANGED <<original_bed, chrom_lens>>

\* Bedshift.to_bed: the frame sorted in place, every row keeping its label;
\* it ends a run, so it may follow the last operator call
ToBed ==
    /\ Idle
    /\ calls <= MaxCalls
    /\ calls' = MaxCalls + 1
    /\ pc' = "idle"
    /\ n' = 0
    /\ bed0' = <<>>
    /\ stages' = <<>>
    /\ bed' = sort_values(bed)
    /\ call' = [NoCall EXCEPT !.op = "to_bed", !.pre = bed]
    /\ UNCHANGED <<original_bed, chrom_lens>>

\* the frames and files _find_overlap is called on by itself
OverlapFiles == UNION {[1..k -> OverlapRegions] : k \in 1..MaxInit}

\* Bedshift._find_overlap called by itself, on the copy of the loaded file or
\* on a frame passed as reference
FindOverlap ==
    /\ Single
    /\ \E fp \in OverlapFiles :
       \E reference \in {original_bed} \cup {reset_index(sort_values(f)) : f \in OverlapFiles} :
          LET found == _find_overlap(reference, fp)
          IN  call' = [NoCall EXCEPT
                          !.op = "_find_overlap", !.file = fp, !.pre = reference,
                          !.err = found.err,
                          !.ret = IF found.err = "none" THEN Len(found.intersection) ELSE -1,
                          !.made = IF found.err # "none" THEN <<>>
                                   ELSE [j \in 1..Len(found.intersection) |->
                                            [row |-> found.intersection[j].idx,
                                             regions |-> <<Region(found.intersection[j])>>]]]
    /\ UNCHANGED <<bed, original_bed, chrom_lens>>

\* ---------------------------------------------------------- the pipeline
\* Bedshift.all_perturbations with yaml=None, one step per stage.  The
\* arguments of a stage are chosen when the stage reads them.
AllPerturbations ==
    /\ Idle
    /\ calls < MaxCalls
    /\ calls' = calls + 1
    /\ pc' = "shift"
    /\ n' = 0
    /\ bed0' = bed
    /\ stages' = <<>>
    /\ call' = NoCall
    /\ UNCHANGED <<bed, original_bed, chrom_lens>>

\* all_perturbations with merge and cut exchanged
StageAfter_merge_first(stage) ==
    CASE stage = "shift" -> "add"
      [] stage = "add" -> "merge"
      [] stage = "merge" -> "cut"
      [] stage = "cut" -> "drop"
      [] stage = "drop" -> "done"

\* the statement after each stage of all_perturbations
StageAfter(stage) ==
    CASE stage = "shift" -> "add"
      [] stage = "add" -> "cut"
      [] stage = "cut" -> "merge"
      [] stage = "merge" -> "drop"
      [] stage = "drop" -> "done"

\* the files a stage of all_perturbations is given: none, or a BED file
StageFiles == {<<>>} \cup ExtFiles

\* a stage ran op and ended as o: n += the count, or the error leaves the call
Staged(stage, op, rate, f, o) ==
    /\ Called(op, rate, f, o)
    /\ stages' = Append(stages, [op |-> op, file |-> f # <<>>, ret |-> o.ret])
    /\ pc' = IF o.err = "none" THEN StageAfter(stage) ELSE "failed"
    /\ n' = IF o.err = "none" THEN n + o.ret ELSE n
    /\ UNCHANGED <<calls, bed0>>

StageShift ==
    /\ pc = "shift"
    /\ \E shiftrate \in StageRates, shiftfile \in StageFiles :
           IF shiftfile # <<>>
           THEN \E o \in shift_from_file(bed, original_bed, chrom_lens, shiftfile, shiftrate) :
                    Staged("shift", "shift_from_file", shiftrate, shiftfile, o)
           ELSE \E o \in shift(bed, chrom_lens, shiftrate, FALSE, <<>>) :
                    Staged("shift", "shift", shiftrate, shiftfile, o)

StageAdd ==
    /\ pc = "add"
    /\ \E addrate \in StageRates, addfile \in StageFiles :
           IF addfile # <<>>
           THEN /\ Grown(bed, addrate, Len(addfile)) <= MaxRows
                /\ \E o \in add_from_file(bed, chrom_lens, addfile, addrate) :
                      Staged("add", "add_from_file", addrate, addfile, o)
           ELSE /\ Grown(bed, addrate, MaxRows) <= MaxRows
                /\ \E o \in add(bed, chrom_lens, addrate) :
                      Staged("add", "add", addrate, addfile, o)

StageCut ==
    /\ pc = "cut"
    /\ \E cutrate \in StageRates :
           /\ Grown(bed, cutrate, MaxRows) <= MaxRows
           /\ \E o \in cut(bed, cutrate) : Staged("cut", "cut", cutrate, <<>>, o)

StageMerge ==
    /\ pc = "merge"
    /\ \E mergerate \in StageRates : \E o \in merge(bed, mergerate) :
           Staged("merge", "merge", mergerate, <<>>, o)

StageDrop ==
    /\ pc = "drop"
    /\ \E droprate \in StageRates, dropfile \in StageFiles :
           IF dropfile # <<>>
           THEN \E o \in drop_from_file(bed, original_bed, dropfile, droprate) :
                    Staged("drop", "drop_from_file", droprate, dropfile, o)
           ELSE \E o \in drop(bed, droprate) :
                    Staged("drop", "drop", droprate, dropfile, o)

Next ==
    \/ Shift \/ ShiftFromFile \/ Add \/ AddFromFile \/ Cut \/ Merge \/ Drop
    \/ DropFromFile \/ ResetBed \/ ToBed \/ FindOverlap
    \/ AllPerturbations
    \/ StageShift \/ StageAdd \/ StageCut \/ StageMerge \/ StageDrop

Spec == Init /\ [][Next]_vars

\* ------------------------------------------------------------ properties
Operators ==
    {"shift", "shift_from_file", "add", "add_from_file", "cut", "merge", "drop",
     "drop_from_file"}

\* the operator all_perturbations runs as its i-th stage, given whether a
\* file was passed for that stage
StageOp(i, file) ==
    CASE i = 1 -> IF file THEN "shift_from_file" ELSE "shift"
      [] i = 2 -> IF file THEN "add_from_file" ELSE "add"
      [] i = 3 -> "cut"
      [] i = 4 -> "merge"
      [] i = 5 -> IF file THEN "drop_from_file" ELSE "drop"

RECURSIVE SumRet(_)
SumRet(ss) == IF ss = <<>> THEN 0 ELSE Head(ss).ret + SumRet(Tail(ss))

\* C1: all_perturbations runs shift, add, cut, merge, drop in that order, the
\* from-file variant of a stage exactly when its file is given; every stage
\* works on the frame the stage before it left (the first on the frame the
\* call found); and the value returned is the sum of the five counts.
C1_StagesInOrder ==
    [][ /\ Len(stages') <= 5
        /\ \A i \in 1..Len(stages') : stages'[i].op = StageOp(i, stages'[i].file)
        /\ (Len(stages') = Len(stages) + 1) =>
              /\ call'.pre = bed
              /\ call'.op = stages'[Len(stages')].op
              /\ (stages = <<>> => bed = bed0)
              /\ \A i \in 1..Len(stages) : stages'[i] = stages[i]
        /\ (pc' = "done") => (Len(stages') = 5 /\ n' = SumRet(stages'))
      ]_vars

\* C1 witness: a finished pipeline that ran a from-file shift and changed rows
C1_Witness ==
    /\ pc = "done"
    /\ stages[1].op = "shift_from_file"
    /\ stages[2].op = "add"
    /\ stages[1].ret >= 1
    /\ n >= 3

\* C2: a stage called with rate 0 completes without error, returns 0, leaves
\* the frame as it was and draws nothing from the random source.
C2_ZeroRateIsNoOp ==
    (call.op \in Operators /\ call.rate = 0) =>
        /\ call.err = "none"
        /\ call.ret = 0
        /\ bed = call.pre
        /\ call.drawn = 0

\* C3: an operator call that ends in an error leaves the frame as it was.
C3_ErrorLeavesBed ==
    (call.op \in Operators /\ call.err # "none") => bed = call.pre

\* C3 witness: shift raised on its second candidate, after the first one had
\* been handled
C3_Witness ==
    /\ call.op = "shift"
    /\ call.err = "KeyError"
    /\ call.drawn = 4
    /\ bed = call.pre

\* C4: when all_perturbations ends in an error, the frame is the one the call
\* found.
C4_FailedPipelineLeavesBed ==
    (pc = "failed") => bed = bed0

\* C5: every operator but add and add_from_file rejects a rate below 0 or
\* above 1 with the invalid-rate error and leaves the frame alone; add and
\* add_from_file reject exactly the rates below 0 that way.
C5_RateRange ==
    /\ (call.op \in Operators \ {"add", "add_from_file"} /\ (call.rate < 0 \/ call.rate > 2))
          => (call.err = "InvalidRate" /\ bed = call.pre)
    /\ (call.op \in {"add", "add_from_file"})
          => (call.err = "InvalidRate" <=> call.rate < 0)

\* C4 as amended: the stage of all_perturbations that ends in an error
\* leaves the frame as the stages before it left it.
C4_FailedStageLeavesBed ==
    [][ (pc' = "failed") => (bed' = bed) ]_vars

\* C4 witness: a failed pipeline whose earlier stages changed the frame
C4_Witness ==
    /\ pc = "failed"
    /\ Len(stages) >= 2
    /\ bed # bed0

\* the rows of frame b that hold region v
Count(b, v) == Cardinality({i \in 1..Len(b) : Region(b[i]) = v})

\* the labels a call sampled
Sampled == {call.rows[j] : j \in 1..Len(call.rows)}

\* the regions a call built, in the order it built them
Made == Concat([j \in 1..Len(call.made) |-> call.made[j].regions])

\* the last k regions of the frame
LastRegions(k) == SubSeq(Regions(bed), Len(bed) - k + 1, Len(bed))

\* every row of the frame before the call that was not sampled is still there
UnsampledRemain ==
    \A i \in 1..Len(call.pre) :
        call.pre[i].idx \notin Sampled =>
            Count(bed, Region(call.pre[i])) >=
                Cardinality({j \in 1..Len(call.pre) :
                    /\ call.pre[j].idx \notin Sampled
                    /\ Region(call.pre[j]) = Region(call.pre[i])})

\* C6: drop with a rate in [0,1] on n rows removes floor(n*rate) rows, returns
\* that number, and leaves every row it did not sample unchanged.
C6_DropRemovesFloor ==
    (call.op = "drop" /\ call.rate \in 0..2) =>
        LET k == (Len(call.pre) * call.rate) \div 2
        IN  /\ call.err = "none"
            /\ call.ret = k
            /\ Cardinality(Sampled) = k
            /\ Len(bed) = Len(call.pre) - k
            /\ UnsampledRemain

\* C6 witness: drop removed one row of three
C6_Witness ==
    /\ call.op = "drop"
    /\ call.err = "none"
    /\ Len(call.pre) = 3
    /\ call.ret = 1

\* C7: after drop, no region of the frame is identical in chromosome, start,
\* end and tag to a region the call removed.
C7_NoRemovedRegionLeft ==
    (call.op = "drop" /\ call.err = "none") =>
        \A row \in Sampled : Count(bed, Region(Loc(call.pre, row))) = 0

\* C7 as amended: after drop, a region identical to a removed one is left
\* only if the frame held that region more than once before the call.
C7_RemovedRegionLeftOnlyIfDuplicate ==
    (call.op = "drop" /\ call.err = "none") =>
        \A row \in Sampled :
            Count(bed, Region(Loc(call.pre, row))) > 0 =>
                Count(call.pre, Region(Loc(call.pre, row))) > 1

\* C7 witness: drop removed a row of a frame of distinct regions and left one
C7_Witness ==
    /\ call.op = "drop"
    /\ call.err = "none"
    /\ call.ret >= 1
    /\ Len(bed) >= 1
    /\ \A i \in 1..Len(call.pre) : Count(call.pre, Region(call.pre[i])) = 1

\* C8: cut with a rate in [0,1] on n rows, k = floor(n*rate), returns k and
\* leaves n + k rows; each sampled region [s, e) on chromosome c is replaced
\* by two regions tagged "C" on c, the first from s, the second to e, the
\* first ending where the second starts.
C8_CutReplacesByTwo ==
    (call.op = "cut" /\ call.rate \in 0..2) =>
        LET k == (Len(call.pre) * call.rate) \div 2
            kept == Len(call.pre) - k
        IN  /\ call.err = "none"
            /\ call.ret = k
            /\ Len(call.rows) = k
            /\ Cardinality(Sampled) = k
            /\ Len(bed) = Len(call.pre) + k
            /\ UnsampledRemain
            /\ \A i \in 1..kept : bed[i].tag # "C" \/ Count(call.pre, Region(bed[i])) > 0
            /\ \A j \in 1..k :
                  LET old == Loc(call.pre, call.rows[j])
                      first == bed[kept + 2 * j - 1]
                      second == bed[kept + 2 * j]
                  IN  /\ first.tag = "C" /\ second.tag = "C"
                      /\ first.chrom = old.chrom /\ second.chrom = old.chrom
                      /\ first.start = old.start
                      /\ second.end = old.end
                      /\ first.end = second.start

\* C8 witness: cut replaced one row of two
C8_Witness ==
    /\ call.op = "cut"
    /\ call.err = "none"
    /\ call.ret = 1
    /\ Len(call.pre) = 2
    /\ Len(bed) = 3

\* C9: every region tagged "M" that merge builds from sampled row i comes
\* from rows i and i + 1 of the frame, both on one chromosome; it is on that
\* chromosome, starts where row i starts and ends where row i + 1 ends.
C9_MergeSameChromosome ==
    (call.op = "merge" /\ call.err = "none") =>
        /\ LastRegions(Len(Made)) = Made
        /\ \A j \in 1..Len(call.made) :
              /\ Len(call.made[j].regions) <= 1
              /\ \A m \in 1..Len(call.made[j].regions) :
                    LET i == call.made[j].row
                        new == call.made[j].regions[m]
                    IN  /\ i \in Sampled
                        /\ i \in Index(call.pre) /\ (i + 1) \in Index(call.pre)
                        /\ Loc(call.pre, i).chrom = Loc(call.pre, i + 1).chrom
                        /\ new.chrom = Loc(call.pre, i).chrom
                        /\ new.start = Loc(call.pre, i).start
                        /\ new.end = Loc(call.pre, i + 1).end
                        /\ new.tag = "M"

\* C9 witness: merge built a region from two rows of a frame that was not
\* sorted, and left another sampled row unmerged
C9_Witness ==
    /\ call.op = "merge"
    /\ call.err = "none"
    /\ ~IsSorted(call.pre)
    /\ Len(Made) >= 1
    /\ \E j \in 1..Len(call.made) : call.made[j].regions = <<>>

\* C10: every region shift builds (called directly or by shift_from_file)
\* starts at 0 or later and ends within its chromosome; the count returned
\* plus the candidates rejected is the number of candidate rows; and the
\* frame has as many rows after the call as before.
C10_ShiftWithinChromosome ==
    (call.op \in {"shift", "shift_from_file"} /\ call.err = "none") =>
        /\ LastRegions(Len(Made)) = Made
        /\ \A j \in 1..Len(Made) :
              /\ Made[j].tag = "S"
              /\ Made[j].start >= 0
              /\ Made[j].chrom \in DOMAIN chrom_lens
              /\ Made[j].end <= chrom_lens[Made[j].chrom]
        /\ call.ret = Len(Made)
        /\ call.ret + call.invalid = Len(call.rows)
        /\ Len(bed) = Len(call.pre)

\* C10 witness: shift_from_file shifted one candidate and rejected another
C10_Witness ==
    /\ call.op = "shift_from_file"
    /\ call.err = "none"
    /\ call.ret >= 1
    /\ call.invalid >= 1

\* region r of a frame overlaps a region of file f: same chromosome, each
\* starting before the other ends
OverlapsFile(r, f) ==
    \E c \in 1..Len(f) :
        r.chrom = f[c].chrom /\ r.start < f[c].end /\ f[c].start < r.end

\* C11: every region shift_from_file replaces by a region tagged "S" is a
\* row of the frame that overlaps a region of the file; no row that overlaps
\* nothing in the file is shifted.
C11_ShiftedRowsOverlapFile ==
    (call.op = "shift_from_file" /\ call.err = "none") =>
        \A j \in 1..Len(call.made) :
            call.made[j].regions # <<>> =>
                /\ call.made[j].row \in Index(call.pre)
                /\ OverlapsFile(Loc(call.pre, call.made[j].row), call.file)

\* C12: when drop_from_file returns k, the frame has exactly k rows fewer,
\* k is floor(rows * rate) lowered to the row count of the file when it is
\* larger, and every removed row overlaps a region of the file.
C12_DropFromFileRemovesOverlapping ==
    (call.op = "drop_from_file" /\ call.err = "none") =>
        LET m == (Len(call.pre) * call.rate) \div 2
            k == IF m > Len(call.file) THEN Len(call.file) ELSE m
        IN  /\ call.ret = k
            /\ Len(bed) = Len(call.pre) - k
            /\ Cardinality(Sampled) = k
            /\ \A row \in Sampled :
                  /\ row \in Index(call.pre)
                  /\ OverlapsFile(Loc(call.pre, row), call.file)

\* the rows of the reference frame that overlap a region of the file of the
\* last call
Overlapping == {i \in 1..Len(original_bed) : OverlapsFile(original_bed[i], call.file)}

C14_ResolverReturnsOverlapping ==
    (call.op = "_find_overlap") =>
        /\ call.err \in {"none", "NoOverlap"}
        /\ (call.err = "NoOverlap") <=>
              ~(\E i \in 1..Len(call.pre) : OverlapsFile(call.pre[i], call.file))
        /\ (call.err = "none") =>
              /\ call.ret = Len(Made)
              /\ \A v \in {Region(call.pre[i]) : i \in 1..Len(call.pre)}
                        \cup {Made[j] : j \in 1..Len(Made)} :
                    Count(Made, v) = IF OverlapsFile(v, call.file)
                                     THEN Count(call.pre, v) ELSE 0

\* C14 witness: of two rows of the reference, one overlaps both regions of
\* the file and is returned once, the other ends where a region of the file
\* starts and is not returned
C14_Witness ==
    /\ call.op = "_find_overlap"
    /\ call.err = "none"
    /\ Len(call.pre) = 2
    /\ Len(call.file) = 2
    /\ Len(Made) = 1
    /\ \E i \in 1..2 :
          /\ Region(call.pre[i]) = Made[1]
          /\ \A c \in 1..2 : OverlapsFile(call.pre[i], <<call.file[c]>>)
    /\ \E i \in 1..2 : \E c \in 1..2 :
          /\ call.pre[i].chrom = call.file[c].chrom
          /\ call.pre[i].end = call.file[c].start
          /\ ~OverlapsFile(call.pre[i], call.file)

\* C15: add with chromosome sizes given and a rate of 0 or more appends
\* floor(rows * rate) regions and returns that number, whatever lengths are
\* drawn; each appended region is tagged "A", is on a chromosome of the
\* sizes file, starts within 1 and the length of its chromosome, and ends
\* at that length or before.
C15_AddWithinChromosome ==
    (call.op = "add" /\ chrom_lens # <<>> /\ call.rate >= 0) =>
        LET k == (Len(call.pre) * call.rate) \div 2
        IN  /\ call.err = "none"
            /\ call.ret = k
            /\ Len(Made) = k
            /\ Len(bed) = Len(call.pre) + k
            /\ SubSeq(Regions(bed), 1, Len(call.pre)) = Regions(call.pre)
            /\ LastRegions(k) = Made
            /\ \A j \in 1..k :
                  /\ Made[j].tag = "A"
                  /\ Made[j].chrom \in DOMAIN chrom_lens
                  /\ Made[j].start >= 1
                  /\ Made[j].start <= chrom_lens[Made[j].chrom]
                  /\ Made[j].end <= chrom_lens[Made[j].chrom]

\* C15 witness: add with rate 1.5 appended a region that starts at the end
\* of its chromosome, so that its end was cut back to that length
C15_Witness ==
    /\ call.op = "add"
    /\ call.err = "none"
    /\ call.rate = 3
    /\ call.ret = 1
    /\ Made[1].start = chrom_lens[Made[1].chrom]
    /\ Made[1].end = chrom_lens[Made[1].chrom]

\* every region of the loaded file lies within its chromosome and is not
\* empty: 0 <= start < end <= length of the chromosome
LoadedWithinChromosomes ==
    \A i \in 1..Len(original_bed) :
        /\ original_bed[i].chrom \in DOMAIN chrom_lens
        /\ 0 <= original_bed[i].start
        /\ original_bed[i].start < original_bed[i].end
        /\ original_bed[i].end <= chrom_lens[original_bed[i].chrom]

\* C16: when every region of the loaded file lies within its chromosome,
\* every region of the frame starts at 0 or later and ends at 0 or later
\* after any calls of add, shift, cut, merge and drop.
C16_NoNegativeCoordinates ==
    LoadedWithinChromosomes =>
        \A i \in 1..Len(bed) : bed[i].start >= 0 /\ bed[i].end >= 0

\* C17: no operator, no to_bed and no failed call changes the copy of the
\* loaded file; after any calls, reset_bed leaves the frame equal to that
\* copy, with the same rows in the same order, all tagged "-"; calls made
\* after it do not change the copy either.
C17_OriginalBedKept ==
    [][ /\ original_bed' = original_bed
        /\ (call'.op = "reset_bed") =>
              /\ bed' = original_bed
              /\ IsSorted(bed')
              /\ \A i \in 1..Len(bed') : bed'[i].tag = "-" /\ bed'[i].idx = i - 1 ]_vars

\* C17 witness: reset_bed restored the frame after it had lost a row and
\* held a perturbed row
C17_Witness ==
    /\ call.op = "reset_bed"
    /\ call.ret < Len(original_bed)
    /\ call.invalid >= 1
    /\ bed = original_bed

MergeFails(i) ==
    \/ (i + 1) \notin Index(call.pre)
    \/ Loc(call.pre, i).chrom # Loc(call.pre, i + 1).chrom

\* C19: for every sampled row i of a merge call whose attempt fails, the
\* region of row i is in the frame after the call, unchanged, whatever other
\* rows the call sampled.
C19_FailedRowKept ==
    (call.op = "merge" /\ call.err = "none") =>
        \A i \in Sampled :
            MergeFails(i) => Count(bed, Region(Loc(call.pre, i))) >= 1

\* rows a and b of a frame can stand next to each other, a first, when the
\* frame is sorted by chromosome, start and end: a is not after b, and no
\* other row of the frame is strictly between them
AdjacentInOrder(frame, a, b) ==
    /\ KeyLeq(Loc(frame, a), Loc(frame, b))
    /\ ~(\E k \in Index(frame) \ {a, b} :
            /\ ~KeyLeq(Loc(frame, k), Loc(frame, a))
            /\ ~KeyLeq(Loc(frame, b), Loc(frame, k)))

\* C20: whatever rows shift, add and cut appended before, every region
\* merge builds combines two rows that are next to each other when the frame
\* the call found is put in ascending order of chromosome, start and end.
C20_MergeAdjacentInOrder ==
    (call.op = "merge" /\ call.err = "none") =>
        \A j \in 1..Len(call.made) :
            call.made[j].regions # <<>> =>
                AdjacentInOrder(call.pre, call.made[j].row, call.made[j].row + 1)

\* C21: in every merge call each region tagged "M" replaces two rows by one:
\* no row of the frame goes into more than one region the call builds, and
\* the frame has as many rows after the call as before it less the number of
\* regions the call built.
C21_MergeReplacesTwoByOne ==
    (call.op = "merge" /\ call.err = "none") =>
        /\ \A j, k \in 1..Len(call.made) :
              (j # k /\ call.made[j].regions # <<>> /\ call.made[k].regions # <<>>) =>
                  {call.made[j].row, call.made[j].row + 1}
                      \cap {call.made[k].row, call.made[k].row + 1} = {}
        /\ Len(bed) = Len(call.pre) - Len(Made)

\* the tag of the regions an operator builds
TagOf(op) ==
    CASE op \in {"shift", "shift_from_file"} -> "S"
      [] op \in {"add", "add_from_file"} -> "A"
      [] op = "cut" -> "C"
      [] op = "merge" -> "M"
      [] OTHER -> "none"

\* C22: after any calls, the rows of the frame tagged "-" are rows of the
\* loaded file, with its chromosome, start and end, none more often than the
\* file holds it; every region an operator builds carries the tag of the
\* operator, and every other row is a row the operator found, as it was.
C22_OriginalRowsFromLoadedFile ==
    /\ \A i \in 1..Len(bed) :
          bed[i].tag = "-" =>
              Count(bed, Region(bed[i])) <= Count(original_bed, Region(bed[i]))
    /\ (call.op \in Operators /\ call.err = "none") =>
          /\ \A j \in 1..Len(Made) : Made[j].tag = TagOf(call.op)
          /\ LastRegions(Len(Made)) = Made
          /\ \A i \in 1..(Len(bed) - Len(Made)) :
                Count(SubSeq(bed, 1, Len(bed) - Len(Made)), Region(bed[i]))
                    <= Count(call.pre, Region(bed[i]))

\* C22 witness: a frame of four rows that holds a row of the loaded file, a
\* shifted region and the two halves of a cut one
C22_Witness ==
    /\ Len(bed) = 4
    /\ call.op = "cut"
    /\ call.err = "none"
    /\ \E i \in 1..4 : bed[i].tag = "-" /\ Count(original_bed, Region(bed[i])) = 1
    /\ \E i \in 1..4 : bed[i].tag = "S"
    /\ \E i \in 1..4 : bed[i].tag = "C"

====
